---------------------------- MODULE Spec2Model ----------------------------
(***************************************************************************)
(* FRER traffic analyzer and generator (scripts/analyze_frer_traffic.py,   *)
(* scripts/generate_frer_traffic.py) and the switch setup tool             *)
(* (scripts/setup_frer_bidirectional.py).                                  *)
(*                                                                         *)
(* A frame is a record [dot1q, payload]: whether it carries an 802.1Q tag  *)
(* and the bytes that follow the tag.  Addresses, VLAN id and priority are *)
(* written by the generator but never read by the analyzer.                *)
(*                                                                         *)
(* Specifications:                                                         *)
(*   Spec      the analyzer fed with arbitrary captured frames             *)
(*   SpecE2E   the generator transmitting, the analyzer observing the      *)
(*             transmitted frames in order                                 *)
(*   SpecGen   the generator alone, its counter starting at 0 or near the  *)
(*             16-bit wrap                                                 *)
(*   SpecRepl  the generator transmitting, the analyzer observing every    *)
(*             transmitted frame twice                                     *)
(*   SpecSetup main of setup_frer_bidirectional.py against a serial port   *)
(*             that answers, stays silent or fails                         *)
(*   SpecCodec create_rtag followed by extract_rtag on chosen inputs       *)
(*                                                                         *)
(* Not modelled: wall-clock time (elapsed, rates, the pacing interval),    *)
(* the progress line send_traffic prints every 100 frames, and the         *)
(* percentages of print_statistics, which are kept as numerator and        *)
(* denominator.                                                            *)
(***************************************************************************)
EXTENDS Integers, Sequences, FiniteSets, TLC

VARIABLES
    \* FRERAnalyzer
    total_frames, rtag_frames, duplicate_frames, sequence_gaps,
    seen_sequences, stream_stats,
    frame_log,       \* the per-frame lines printed by analyze_frame
    observed,        \* the frames sniff() has handed to analyze_frame, in order
    cap_count,       \* capture_traffic's count argument, 0 = unlimited
    apc,             \* capture_traffic: "capturing" | "done"
    stop_reason,     \* how sniff() ended
    report,          \* the reports print_statistics has printed
    \* FRERTrafficGenerator
    stream_id, sequence_number, count, loop_i, sent_count,
    gpc,             \* send_traffic: position in the loop
    entry_seq,       \* history: sequence_number when send_traffic was entered
    sentFrames,      \* the frames the sink accepted, in order
    cur_frame,       \* the frame built by generate_frame, not yet sent
    gen_report,      \* the final statistics send_traffic has printed
    \* codec fixture
    codec,
    \* setup_frer_bidirectional.py: main and LAN9662_FRER_Config
    verify_only,     \* --verify-only
    spc,             \* main: position
    ser_open,        \* self.ser.is_open
    cmd_log,         \* the send_command calls, each with what the port did
    success1, success2,
    frer_status,     \* what verify_frer_status returned
    setup_out        \* the closing lines main printed

analyzerVars == <<total_frames, rtag_frames, duplicate_frames, sequence_gaps,
                  seen_sequences, stream_stats, frame_log, observed,
                  cap_count, apc, stop_reason, report>>
generatorVars == <<stream_id, sequence_number, count, loop_i, sent_count, gpc,
                   entry_seq, sentFrames, cur_frame, gen_report>>
setupVars == <<verify_only, spc, ser_open, cmd_log, success1, success2,
               frer_status, setup_out>>
vars == <<analyzerVars, generatorVars, codec, setupVars>>

---------------------------------------------------------------------------
(* Bounds *)

MaxFrames == 3
MaxCount == 11

(* Program constants *)

RTAG_ETHERTYPE == 35133
GAP_NOISE_THRESHOLD == 1000
MIN_SAMPLE == 10
PAYLOAD_SIZE == 100

\* Python's None in an integer slot
None == -1

\* extract_rtag's (None, None, None)
NoRtag == [ethertype |-> None, seq_num |-> None, stream_id |-> None]

\* No frame built yet
NoFrame == [dot1q |-> FALSE, payload |-> <<>>]

---------------------------------------------------------------------------
(* struct.pack / struct.unpack, big-endian *)

Mask16(n) == n % 65536

PackH(n) == <<n \div 256, n % 256>>

PackI(n) == <<(n \div 16777216) % 256, (n \div 65536) % 256,
              (n \div 256) % 256, n % 256>>

UnpackH(b) == b[1] * 256 + b[2]

UnpackH_le(b) == b[2] * 256 + b[1]

Slice(b, lo, hi) == [k \in 1..(hi - lo) |-> b[lo + k]]

---------------------------------------------------------------------------
(* FRERTrafficGenerator.create_rtag *)

create_rtag_nomask(seq_num, sid) ==
    PackH(RTAG_ETHERTYPE) \o PackH(seq_num) \o PackH(sid)

create_rtag(seq_num, sid) ==
    PackH(RTAG_ETHERTYPE) \o PackH(Mask16(seq_num)) \o PackH(Mask16(sid))

(* FRERAnalyzer.extract_rtag *)

extract_rtag_le(frame) ==
    IF ~frame.dot1q THEN NoRtag
    ELSE LET payload == frame.payload IN
         IF Len(payload) < 6 THEN NoRtag
         ELSE LET ethertype == UnpackH(Slice(payload, 0, 2)) IN
              IF ethertype # RTAG_ETHERTYPE THEN NoRtag
              ELSE [ethertype |-> ethertype,
                    seq_num   |-> UnpackH_le(Slice(payload, 2, 4)),
                    stream_id |-> UnpackH_le(Slice(payload, 4, 6))]

extract_rtag_nocheck(frame) ==
    IF ~frame.dot1q THEN NoRtag
    ELSE LET payload == frame.payload IN
         IF Len(payload) < 6 THEN NoRtag
         ELSE LET ethertype == UnpackH(Slice(payload, 0, 2)) IN
              [ethertype |-> ethertype,
               seq_num   |-> UnpackH(Slice(payload, 2, 4)),
               stream_id |-> UnpackH(Slice(payload, 4, 6))]

extract_rtag(frame) ==
    IF ~frame.dot1q THEN NoRtag
    ELSE LET payload == frame.payload IN
         IF Len(payload) < 6 THEN NoRtag
         ELSE LET ethertype == UnpackH(Slice(payload, 0, 2)) IN
              IF ethertype # RTAG_ETHERTYPE THEN NoRtag
              ELSE [ethertype |-> ethertype,
                    seq_num   |-> UnpackH(Slice(payload, 2, 4)),
                    stream_id |-> UnpackH(Slice(payload, 4, 6))]

---------------------------------------------------------------------------
(* FRERAnalyzer: per-stream statistics *)

DefaultStats == [count |-> 0, sequences |-> {}, duplicates |-> 0, last_seq |-> -1]

\* stream_stats[sid] on a defaultdict
StatsOf_shared(stats, sid) ==
    IF sid \in DOMAIN stats THEN stats[sid]
    ELSE IF DOMAIN stats # {} THEN stats[CHOOSE t \in DOMAIN stats : TRUE]
    ELSE DefaultStats

StatsOf(stats, sid) == IF sid \in DOMAIN stats THEN stats[sid] ELSE DefaultStats

AllSequences(stats) == UNION {stats[s].sequences : s \in DOMAIN stats}

IsDuplicate_global(stats, sid, seq_num) == seq_num \in AllSequences(stats)

IsDuplicate(stats, sid, seq_num) == seq_num \in StatsOf(stats, sid).sequences

ExpectedSeq(last_seq) == Mask16(last_seq + 1)

GapOf(seq_num, expected_seq) == Mask16(seq_num - expected_seq)

\* The gap test of analyze_frame; st is the stream's entry after the
\* duplicate check, so st.sequences already holds seq_num.
GapDetected_unguarded(st, seq_num) ==
    /\ st.last_seq # -1
    /\ GapOf(seq_num, ExpectedSeq(st.last_seq)) < GAP_NOISE_THRESHOLD

GapDetected_nothreshold(st, seq_num) ==
    /\ st.last_seq # -1
    /\ seq_num # ExpectedSeq(st.last_seq)

GapDetected(st, seq_num) ==
    /\ st.last_seq # -1
    /\ seq_num # ExpectedSeq(st.last_seq)
    /\ seq_num \notin st.sequences
    /\ GapOf(seq_num, ExpectedSeq(st.last_seq)) < GAP_NOISE_THRESHOLD

\* stats['sequences'].add(seq_num)
InsertSeq_window(seqs, seq_num) ==
    IF Cardinality(seqs) >= 2 THEN {seq_num} ELSE seqs \cup {seq_num}

InsertSeq(seqs, seq_num) == seqs \cup {seq_num}

\* stats['last_seq'] = seq_num
UpdateLast_newonly(st, seq_num, dup) ==
    IF dup THEN st ELSE [st EXCEPT !.last_seq = seq_num]

UpdateLast(st, seq_num, dup) == [st EXCEPT !.last_seq = seq_num]

\* stats['count'] += 1
CountStream_newonly(n, dup) == IF dup THEN n ELSE n + 1

CountStream(n, dup) == n + 1

CountTotal_untagged(n, rtag) == IF rtag.ethertype = None THEN n + 1 ELSE n

CountTotal(n, rtag) == n + 1

(* FRERAnalyzer.analyze_frame *)
analyze_frame(frame) ==
    /\ apc = "capturing"
    /\ observed' = Append(observed, frame)
    /\ LET rtag == extract_rtag(frame) IN
       /\ total_frames' = CountTotal(total_frames, rtag)
       /\ IF rtag.ethertype = None
          THEN UNCHANGED <<rtag_frames, duplicate_frames, sequence_gaps,
                           stream_stats, frame_log>>
          ELSE LET seq_num == rtag.seq_num
                   sid     == rtag.stream_id
                   st0     == StatsOf(stream_stats, sid)
                   dup     == IsDuplicate(stream_stats, sid, seq_num)
                   st1     == [st0 EXCEPT
                                 !.count = CountStream(@, dup),
                                 !.duplicates = IF dup THEN @ + 1 ELSE @,
                                 !.sequences = IF dup THEN @
                                               ELSE InsertSeq(@, seq_num)]
                   gap     == GapDetected(st1, seq_num)
               IN
               /\ rtag_frames' = rtag_frames + 1
               /\ duplicate_frames' = IF dup THEN duplicate_frames + 1
                                             ELSE duplicate_frames
               /\ sequence_gaps' = IF gap THEN sequence_gaps + 1 ELSE sequence_gaps
               /\ stream_stats' = (sid :> UpdateLast(st1, seq_num, dup))
                                  @@ stream_stats
               /\ frame_log' = Append(frame_log,
                                  [frame  |-> total_frames',
                                   stream |-> sid,
                                   seq    |-> seq_num,
                                   status |-> IF dup THEN "DUPLICATE" ELSE "NEW",
                                   gap    |-> gap])
    /\ UNCHANGED <<seen_sequences, cap_count, apc, stop_reason, report>>

Min(S) == CHOOSE x \in S : \A y \in S : x <= y
Max(S) == CHOOSE x \in S : \A y \in S : x >= y

\* The per-stream block of print_statistics
StreamReport_offbyone(st) ==
    LET actual == Cardinality(st.sequences) IN
    IF actual > 0
    THEN LET min_seq  == Min(st.sequences)
             max_seq  == Max(st.sequences)
             expected == max_seq - min_seq
         IN [count |-> st.count, unique |-> actual, duplicates |-> st.duplicates,
             has_range |-> TRUE, min_seq |-> min_seq, max_seq |-> max_seq,
             expected |-> expected, actual |-> actual,
             loss_num |-> IF expected > 0 THEN expected - actual ELSE 0]
    ELSE [count |-> st.count, unique |-> actual, duplicates |-> st.duplicates,
          has_range |-> FALSE, min_seq |-> -1, max_seq |-> -1,
          expected |-> 0, actual |-> 0, loss_num |-> 0]

StreamReport(st) ==
    LET actual == Cardinality(st.sequences) IN
    IF actual > 0
    THEN LET min_seq  == Min(st.sequences)
             max_seq  == Max(st.sequences)
             expected == max_seq - min_seq + 1
         IN [count |-> st.count, unique |-> actual, duplicates |-> st.duplicates,
             has_range |-> TRUE, min_seq |-> min_seq, max_seq |-> max_seq,
             expected |-> expected, actual |-> actual,
             loss_num |-> IF expected > 0 THEN expected - actual ELSE 0]
    ELSE [count |-> st.count, unique |-> actual, duplicates |-> st.duplicates,
          has_range |-> FALSE, min_seq |-> -1, max_seq |-> -1,
          expected |-> 0, actual |-> 0, loss_num |-> 0]

\* The two closing lines of print_statistics
EliminationLine(gaps, seen) ==
    IF gaps = 0 /\ Cardinality(seen) > MIN_SAMPLE THEN "working"
    ELSE IF gaps > 0 THEN "gaps" ELSE "silent"

(* FRERAnalyzer.print_statistics *)
print_statistics ==
    [total_frames     |-> total_frames,
     rtag_frames      |-> rtag_frames,
     duplicate_frames |-> duplicate_frames,
     sequence_gaps    |-> sequence_gaps,
     streams          |-> [s \in DOMAIN stream_stats |-> StreamReport(stream_stats[s])],
     replication      |-> duplicate_frames > 0,
     elimination      |-> EliminationLine(sequence_gaps, seen_sequences)]

StopReasons == {"count", "timeout", "interrupt", "error"}

\* sniff(count=...) still accepts frames
SniffOpen == cap_count = 0 \/ Len(observed) < cap_count

capture_end_uncaught(reason) ==
    /\ apc = "capturing"
    /\ IF reason = "count" THEN cap_count > 0 /\ Len(observed) = cap_count
                           ELSE SniffOpen
    /\ apc' = "done"
    /\ stop_reason' = reason
    /\ report' = IF reason = "error" THEN report
                                     ELSE Append(report, print_statistics)
    /\ UNCHANGED <<total_frames, rtag_frames, duplicate_frames, sequence_gaps,
                   seen_sequences, stream_stats, frame_log, observed, cap_count>>

(* FRERAnalyzer.capture_traffic: sniff() returns (count or timeout reached), *)
(* or raises KeyboardInterrupt or another exception; print_statistics runs   *)
(* in every case.                                                            *)
capture_end(reason) ==
    /\ apc = "capturing"
    /\ IF reason = "count" THEN cap_count > 0 /\ Len(observed) = cap_count
                           ELSE SniffOpen
    /\ apc' = "done"
    /\ stop_reason' = reason
    /\ report' = Append(report, print_statistics)
    /\ UNCHANGED <<total_frames, rtag_frames, duplicate_frames, sequence_gaps,
                   seen_sequences, stream_stats, frame_log, observed, cap_count>>

---------------------------------------------------------------------------
(* FRERTrafficGenerator *)

Repeat(b, n) == [k \in 1..n |-> b]

\* b'FRER_TEST_'
FRER_TEST == <<70, 82, 69, 82, 95, 84, 69, 83, 84, 95>>

NextSequenceNumber_skip(n) == n + 2

NextSequenceNumber(n) == n + 1

\* The frame generate_frame returns: Ether / Dot1Q / Raw(rtag + payload)
BuildFrame(seq_no, sid) ==
    LET rtag    == create_rtag(seq_no, sid)
        head    == FRER_TEST \o PackI(seq_no)
        payload == head \o Repeat(88, PAYLOAD_SIZE - Len(head))
    IN [dot1q |-> TRUE, payload |-> rtag \o payload]

(* FRERTrafficGenerator.generate_frame, called at the head of a loop pass *)
generate_frame ==
    /\ gpc = "loop"
    /\ loop_i < count
    /\ cur_frame' = BuildFrame(sequence_number, stream_id)
    /\ sequence_number' = NextSequenceNumber(sequence_number)
    /\ gpc' = "send"
    /\ UNCHANGED <<entry_seq, stream_id, count, loop_i, sent_count, sentFrames, gen_report>>

(* sendp returns: the sink accepted the frame *)
sendp_ok ==
    /\ gpc = "send"
    /\ sentFrames' = Append(sentFrames, cur_frame)
    /\ gpc' = "sent"
    /\ UNCHANGED <<entry_seq, stream_id, sequence_number, count, loop_i, sent_count,
                   cur_frame, gen_report>>

(* sendp raises (not KeyboardInterrupt): nothing in send_traffic catches it, *)
(* the exception leaves send_traffic and main                                *)
sendp_fail ==
    /\ gpc = "send"
    /\ gpc' = "crashed"
    /\ UNCHANGED <<entry_seq, stream_id, sequence_number, count, loop_i, sent_count,
                   sentFrames, cur_frame, gen_report>>

(* sent_count += 1 *)
count_sent ==
    /\ gpc = "sent"
    /\ sent_count' = sent_count + 1
    /\ gpc' = "sleep"
    /\ UNCHANGED <<entry_seq, stream_id, sequence_number, count, loop_i, sentFrames,
                   cur_frame, gen_report>>

(* time.sleep(interval) returns; next loop pass *)
sleep_done ==
    /\ gpc = "sleep"
    /\ loop_i' = loop_i + 1
    /\ gpc' = "loop"
    /\ UNCHANGED <<entry_seq, stream_id, sequence_number, count, sent_count, sentFrames,
                   cur_frame, gen_report>>

\* The closing statistics of send_traffic
GenStatistics(interrupted) ==
    [sent |-> sent_count, final_sequence |-> sequence_number - 1,
     interrupted |-> interrupted]

(* range(count) exhausted: the statistics are printed *)
loop_exit ==
    /\ gpc = "loop"
    /\ loop_i >= count
    /\ gen_report' = Append(gen_report, GenStatistics(FALSE))
    /\ gpc' = "done"
    /\ UNCHANGED <<entry_seq, stream_id, sequence_number, count, loop_i, sent_count,
                   sentFrames, cur_frame>>

(* KeyboardInterrupt anywhere inside the try block *)
keyboard_interrupt ==
    /\ gpc \in {"loop", "send", "sent", "sleep"}
    /\ gen_report' = Append(gen_report, GenStatistics(TRUE))
    /\ gpc' = "done"
    /\ UNCHANGED <<entry_seq, stream_id, sequence_number, count, loop_i, sent_count,
                   sentFrames, cur_frame>>

---------------------------------------------------------------------------
(* setup_frer_bidirectional.py *)

MUP1_START == 62
MUP1_END == 60
CMD_GET == 71
CMD_SET == 83

RECURSIVE XorBits(_, _, _)
XorBits(a, b, n) ==
    IF n = 0 THEN 0
    ELSE (((a % 2) + (b % 2)) % 2) + 2 * XorBits(a \div 2, b \div 2, n - 1)

\* LAN9662_FRER_Config.calculate_checksum
RECURSIVE calculate_checksum(_)
calculate_checksum(data) ==
    IF data = <<>> THEN 0
    ELSE XorBits(calculate_checksum(SubSeq(data, 1, Len(data) - 1)),
                 data[Len(data)], 8)

\* The frame send_command writes: >TYPE[DATA]<CHECKSUM
CommandFrame(cmd_type, data) ==
    <<MUP1_START, cmd_type>> \o data \o
    <<MUP1_END, calculate_checksum(<<cmd_type>> \o data)>>

\* What the serial port does with a command: the write raises, the read
\* raises, or the read returns that many bytes
Responses == {[raised |-> "write", len |-> 0], [raised |-> "read", len |-> 0],
              [raised |-> "", len |-> 0], [raised |-> "", len |-> 3],
              [raised |-> "", len |-> 5]}

\* if response and len(response) > 0
Answered(resp) == resp.raised = "" /\ resp.len > 0

\* LAN9662_FRER_Config.send_command: the log after the call
send_command(cmd_type, data, resp) ==
    Append(cmd_log, [cmd_type |-> cmd_type, data |-> data,
                     frame |-> CommandFrame(cmd_type, data),
                     response |-> resp])

\* struct.pack('>HBB', stream_id, in_port, out_port_mask), ports 1 and 2
StreamConfig(sid) == PackH(sid) \o <<4, 2 + 4>>

\* struct.pack('>HB', stream_id, 1)
RtagConfig(sid) == PackH(sid) \o <<1>>

\* struct.pack('>HBH', stream_id, history_len, reset_timeout_ms)
ElimConfig(sid) == PackH(sid) \o <<32>> \o PackH(100)

\* The status query of verify_frer_status
StatusQuery == [cmd_type |-> CMD_GET, data |-> <<0>>]

NoStatus == [queried |-> FALSE, rtag_enabled |-> FALSE,
             elimination_active |-> FALSE]

\* The step main takes once the serial port is open
AfterConnect_configure(verify) == "prompt"

AfterConnect(verify) == IF verify THEN "verify" ELSE "prompt"

(* LAN9662_FRER_Config.__init__: serial.Serial opens *)
connect_ok ==
    /\ spc = "connect"
    /\ ser_open' = TRUE
    /\ spc' = AfterConnect(verify_only)
    /\ UNCHANGED <<verify_only, cmd_log, success1, success2, frer_status, setup_out>>

(* LAN9662_FRER_Config.__init__: serial.Serial raises, sys.exit(1) *)
connect_fail ==
    /\ spc = "connect"
    /\ spc' = "exit1"
    /\ UNCHANGED <<verify_only, ser_open, cmd_log, success1, success2,
                   frer_status, setup_out>>

(* input("Press Enter to continue...") returns *)
prompt_enter ==
    /\ spc = "prompt"
    /\ spc' = "stream1"
    /\ UNCHANGED <<verify_only, ser_open, cmd_log, success1, success2,
                   frer_status, setup_out>>

(* input() raises EOFError: nothing in main catches it *)
prompt_eof ==
    /\ spc = "prompt"
    /\ spc' = "crashed"
    /\ UNCHANGED <<verify_only, ser_open, cmd_log, success1, success2,
                   frer_status, setup_out>>

\* main's branch on the result of configure_frer_stream
AfterStream_abort(n, ok) ==
    IF ok THEN (IF n = 1 THEN "rtag1" ELSE "rtag2") ELSE "verify"

AfterStream(n, ok) ==
    IF ok THEN (IF n = 1 THEN "rtag1" ELSE "rtag2")
          ELSE (IF n = 1 THEN "stream2" ELSE "verify")

(* LAN9662_FRER_Config.configure_frer_stream, and main's branch on it *)
configure_frer_stream(n, resp) ==
    /\ spc = (IF n = 1 THEN "stream1" ELSE "stream2")
    /\ cmd_log' = send_command(CMD_SET, StreamConfig(n), resp)
    /\ IF n = 1 THEN success1' = Answered(resp) /\ UNCHANGED success2
                ELSE success2' = Answered(resp) /\ UNCHANGED success1
    /\ spc' = AfterStream(n, Answered(resp))
    /\ UNCHANGED <<verify_only, ser_open, frer_status, setup_out>>

(* LAN9662_FRER_Config.enable_rtag_generation; main ignores the result *)
enable_rtag_generation(n, resp) ==
    /\ spc = (IF n = 1 THEN "rtag1" ELSE "rtag2")
    /\ cmd_log' = send_command(CMD_SET, RtagConfig(n), resp)
    /\ spc' = (IF n = 1 THEN "elim1" ELSE "elim2")
    /\ UNCHANGED <<verify_only, ser_open, success1, success2, frer_status,
                   setup_out>>

(* LAN9662_FRER_Config.configure_frame_elimination; main ignores the result *)
configure_frame_elimination(n, resp) ==
    /\ spc = (IF n = 1 THEN "elim1" ELSE "elim2")
    /\ cmd_log' = send_command(CMD_SET, ElimConfig(n), resp)
    /\ spc' = (IF n = 1 THEN "stream2" ELSE "verify")
    /\ UNCHANGED <<verify_only, ser_open, success1, success2, frer_status,
                   setup_out>>

(* LAN9662_FRER_Config.verify_frer_status, and in full mode the closing *)
(* lines of main                                                        *)
verify_frer_status(resp) ==
    /\ spc = "verify"
    /\ cmd_log' = send_command(StatusQuery.cmd_type, StatusQuery.data, resp)
    /\ frer_status' = [queried |-> TRUE,
                       rtag_enabled |-> resp.raised = "" /\ resp.len > 4,
                       elimination_active |-> resp.raised = "" /\ resp.len > 4]
    /\ setup_out' = IF verify_only THEN setup_out
                    ELSE Append(setup_out,
                                IF success1 /\ success2 THEN "complete"
                                                        ELSE "incomplete")
    /\ spc' = "close"
    /\ UNCHANGED <<verify_only, ser_open, success1, success2>>

(* LAN9662_FRER_Config.close *)
close ==
    /\ spc = "close"
    /\ ser_open' = FALSE
    /\ spc' = "closed"
    /\ UNCHANGED <<verify_only, cmd_log, success1, success2, frer_status,
                   setup_out>>

---------------------------------------------------------------------------
(* Codec fixture: create_rtag, then extract_rtag on a VLAN-tagged frame     *)
(* whose payload starts with the tag                                        *)

CodecVals == {0, 1, 255, 256, 257, 4660, 13330, 15753, 35133, 32768, 65534, 65535}
CodecTails == {<<>>, <<0>>, FRER_TEST}

codec_encode ==
    /\ codec.pc = "input"
    /\ codec' = [codec EXCEPT !.pc = "encoded",
                              !.rtag = create_rtag(codec.seq, codec.sid)]
    /\ UNCHANGED <<analyzerVars, generatorVars, setupVars>>

codec_decode ==
    /\ codec.pc = "encoded"
    /\ \E tail \in CodecTails :
         codec' = [codec EXCEPT
                     !.pc = "decoded",
                     !.tail = tail,
                     !.out = extract_rtag([dot1q |-> TRUE,
                                           payload |-> codec.rtag \o tail])]
    /\ UNCHANGED <<analyzerVars, generatorVars, setupVars>>

---------------------------------------------------------------------------
(* Captured frames offered to the analyzer in Spec *)

SeqVals == {0, 5, 6, 7, 1000, 1001, 50000, 65535}
SidVals == {1, 2}

\* A VLAN-tagged frame carrying an R-TAG with the given fields
WireFrame(seq_num, sid) ==
    [dot1q |-> TRUE,
     payload |-> <<137, 61, seq_num \div 256, seq_num % 256,
                   sid \div 256, sid % 256>>]

NoVlanFrame    == [dot1q |-> FALSE, payload |-> <<137, 61, 0, 5, 0, 1>>]
ShortFrame     == [dot1q |-> TRUE,  payload |-> <<137, 61, 0, 5, 0>>]
WrongTypeFrame == [dot1q |-> TRUE,  payload |-> <<137, 62, 0, 5, 0, 1>>]
EmptyFrame     == [dot1q |-> TRUE,  payload |-> <<>>]

TaggedFrames   == {WireFrame(q, s) : q \in SeqVals, s \in SidVals}
UntaggedFrames == {NoVlanFrame, ShortFrame, WrongTypeFrame, EmptyFrame}
FrameSet       == TaggedFrames \cup UntaggedFrames

GenStreamIds == {1, 2, 65537}

\* count arguments of capture_traffic
CapCounts == {0, 2}

\* Values of the generator's counter at the entry of send_traffic
GenStartSeqs == {0, 65534}

---------------------------------------------------------------------------
(* Initial states *)

\* FRERAnalyzer.__init__
InitAnalyzer ==
    /\ total_frames = 0
    /\ rtag_frames = 0
    /\ duplicate_frames = 0
    /\ sequence_gaps = 0
    /\ seen_sequences = {}
    /\ stream_stats = <<>>
    /\ frame_log = <<>>
    /\ observed = <<>>
    /\ cap_count \in CapCounts
    /\ apc = "capturing"
    /\ stop_reason = ""
    /\ report = <<>>

\* FRERTrafficGenerator.__init__ and the entry of send_traffic
InitGenerator ==
    /\ stream_id \in GenStreamIds
    /\ sequence_number = 0
    /\ entry_seq = 0
    /\ count \in 0..MaxCount
    /\ loop_i = 0
    /\ sent_count = 0
    /\ gpc = "loop"
    /\ sentFrames = <<>>
    /\ cur_frame = NoFrame
    /\ gen_report = <<>>

\* send_traffic entered on a generator whose counter earlier calls have advanced
InitGeneratorAny ==
    /\ stream_id \in GenStreamIds
    /\ sequence_number \in GenStartSeqs
    /\ entry_seq = sequence_number
    /\ count \in 0..MaxCount
    /\ loop_i = 0
    /\ sent_count = 0
    /\ gpc = "loop"
    /\ sentFrames = <<>>
    /\ cur_frame = NoFrame
    /\ gen_report = <<>>

\* No generator in this run
GeneratorOff ==
    /\ stream_id = 1
    /\ sequence_number = 0
    /\ entry_seq = 0
    /\ count = 0
    /\ loop_i = 0
    /\ sent_count = 0
    /\ gpc = "off"
    /\ sentFrames = <<>>
    /\ cur_frame = NoFrame
    /\ gen_report = <<>>

CodecOff == codec = [pc |-> "off", seq |-> 0, sid |-> 0, rtag |-> <<>>,
                     tail |-> <<>>, out |-> NoRtag]

\* No analyzer in this run
AnalyzerOff ==
    /\ total_frames = 0
    /\ rtag_frames = 0
    /\ duplicate_frames = 0
    /\ sequence_gaps = 0
    /\ seen_sequences = {}
    /\ stream_stats = <<>>
    /\ frame_log = <<>>
    /\ observed = <<>>
    /\ cap_count = 0
    /\ apc = "off"
    /\ stop_reason = ""
    /\ report = <<>>

\* The setup tool is not run
SetupOff ==
    /\ verify_only = FALSE
    /\ spc = "off"
    /\ ser_open = FALSE
    /\ cmd_log = <<>>
    /\ success1 = FALSE
    /\ success2 = FALSE
    /\ frer_status = NoStatus
    /\ setup_out = <<>>

\* main of the setup tool, before LAN9662_FRER_Config is constructed
InitSetupMain ==
    /\ verify_only \in BOOLEAN
    /\ spc = "connect"
    /\ ser_open = FALSE
    /\ cmd_log = <<>>
    /\ success1 = FALSE
    /\ success2 = FALSE
    /\ frer_status = NoStatus
    /\ setup_out = <<>>

Init == InitAnalyzer /\ GeneratorOff /\ CodecOff /\ SetupOff

InitE2E == InitAnalyzer /\ InitGenerator /\ CodecOff /\ SetupOff

InitGen == AnalyzerOff /\ InitGeneratorAny /\ CodecOff /\ SetupOff

InitRepl == InitAnalyzer /\ InitGeneratorAny /\ CodecOff /\ SetupOff

InitSetup == AnalyzerOff /\ GeneratorOff /\ CodecOff /\ InitSetupMain

InitCodec ==
    /\ AnalyzerOff
    /\ GeneratorOff
    /\ SetupOff
    /\ \E q \in CodecVals, s \in CodecVals :
         codec = [pc |-> "input", seq |-> q, sid |-> s, rtag |-> <<>>,
                  tail |-> <<>>, out |-> NoRtag]

---------------------------------------------------------------------------
(* Steps *)

\* sniff() hands one captured frame to analyze_frame
Observe ==
    /\ Len(observed) < MaxFrames
    /\ SniffOpen
    /\ \E frame \in FrameSet : analyze_frame(frame)
    /\ UNCHANGED <<generatorVars, codec, setupVars>>

\* sniff() hands the next transmitted frame to analyze_frame
Deliver ==
    /\ Len(observed) < Len(sentFrames)
    /\ SniffOpen
    /\ analyze_frame(sentFrames[Len(observed) + 1])
    /\ UNCHANGED <<generatorVars, codec, setupVars>>

\* The wire replicates every transmitted frame: sniff() hands each frame to
\* analyze_frame twice, the copy right after the original
DeliverReplicated ==
    /\ Len(observed) < 2 * Len(sentFrames)
    /\ SniffOpen
    /\ analyze_frame(sentFrames[(Len(observed) \div 2) + 1])
    /\ UNCHANGED <<generatorVars, codec, setupVars>>

CaptureEnd ==
    /\ \E reason \in StopReasons : capture_end(reason)
    /\ UNCHANGED <<generatorVars, codec, setupVars>>

GenerateFrame     == generate_frame /\ UNCHANGED <<analyzerVars, codec, setupVars>>
SendpOk           == sendp_ok /\ UNCHANGED <<analyzerVars, codec, setupVars>>
SendpFail         == sendp_fail /\ UNCHANGED <<analyzerVars, codec, setupVars>>
CountSent         == count_sent /\ UNCHANGED <<analyzerVars, codec, setupVars>>
SleepDone         == sleep_done /\ UNCHANGED <<analyzerVars, codec, setupVars>>
LoopExit          == loop_exit /\ UNCHANGED <<analyzerVars, codec, setupVars>>
KeyboardInterrupt == keyboard_interrupt /\ UNCHANGED <<analyzerVars, codec, setupVars>>

Next == Observe \/ CaptureEnd

NextE2E ==
    \/ GenerateFrame \/ SendpOk \/ SendpFail \/ CountSent \/ SleepDone
    \/ LoopExit \/ KeyboardInterrupt
    \/ Deliver \/ CaptureEnd

NextGen ==
    \/ GenerateFrame \/ SendpOk \/ SendpFail \/ CountSent \/ SleepDone
    \/ LoopExit \/ KeyboardInterrupt

NextRepl ==
    \/ GenerateFrame \/ SendpOk \/ CountSent \/ SleepDone \/ LoopExit
    \/ DeliverReplicated \/ CaptureEnd

ConnectOk   == connect_ok /\ UNCHANGED <<analyzerVars, generatorVars, codec>>
ConnectFail == connect_fail /\ UNCHANGED <<analyzerVars, generatorVars, codec>>
PromptEnter == prompt_enter /\ UNCHANGED <<analyzerVars, generatorVars, codec>>
PromptEof   == prompt_eof /\ UNCHANGED <<analyzerVars, generatorVars, codec>>
ConfigureStream ==
    /\ \E n \in {1, 2}, resp \in Responses : configure_frer_stream(n, resp)
    /\ UNCHANGED <<analyzerVars, generatorVars, codec>>
EnableRtag ==
    /\ \E n \in {1, 2}, resp \in Responses : enable_rtag_generation(n, resp)
    /\ UNCHANGED <<analyzerVars, generatorVars, codec>>
ConfigureElimination ==
    /\ \E n \in {1, 2}, resp \in Responses : configure_frame_elimination(n, resp)
    /\ UNCHANGED <<analyzerVars, generatorVars, codec>>
VerifyStatus ==
    /\ \E resp \in Responses : verify_frer_status(resp)
    /\ UNCHANGED <<analyzerVars, generatorVars, codec>>
Close == close /\ UNCHANGED <<analyzerVars, generatorVars, codec>>

NextSetup ==
    \/ ConnectOk \/ ConnectFail \/ PromptEnter \/ PromptEof
    \/ ConfigureStream \/ EnableRtag \/ ConfigureElimination
    \/ VerifyStatus \/ Close

NextCodec == codec_encode \/ codec_decode

Spec == Init /\ [][Next]_vars

SpecE2E == InitE2E /\ [][NextE2E]_vars

SpecGen == InitGen /\ [][NextGen]_vars

SpecRepl == InitRepl /\ [][NextRepl]_vars

SpecSetup == InitSetup /\ [][NextSetup]_vars

SpecCodec == InitCodec /\ [][NextCodec]_vars

---------------------------------------------------------------------------
(* Properties *)

\* analyze_frame has just been handed this frame
Observes(frame) == observed' = Append(observed, frame)

\* Successor and forward distance of 16-bit sequence numbers, as the
\* specification defines them
Succ16(q) == IF q = 65535 THEN 0 ELSE q + 1
Dist16(q, e) == IF q >= e THEN q - e ELSE q - e + 65536

\* lastSequence of a stream is set
LastSet(s) == s \in DOMAIN stream_stats /\ stream_stats[s].last_seq # -1

\* C1 - Gap detection: a tagged frame arriving on a stream whose
\* lastSequence is set, with a sequence different from the successor of
\* lastSequence and at a forward distance below 1000 from it, raises the gap
\* counter by exactly one; the first frame on a stream raises no gap; a fresh
\* stream receiving 5 then 7 ends with gap count 1.
C1_GapStep ==
    \A q \in SeqVals, s \in SidVals :
      Observes(WireFrame(q, s)) =>
        /\ ( /\ LastSet(s)
             /\ q # Succ16(stream_stats[s].last_seq)
             /\ Dist16(q, Succ16(stream_stats[s].last_seq)) < 1000 )
           => sequence_gaps' = sequence_gaps + 1
        /\ ~LastSet(s) => sequence_gaps' = sequence_gaps

C1_FiveThenSeven ==
    observed = <<WireFrame(5, 1), WireFrame(7, 1)>> => sequence_gaps = 1

C1_GapDetection == [][C1_GapStep]_vars /\ []C1_FiveThenSeven

\* The sequence numbers seen on a stream so far
SeenOn(s) == IF s \in DOMAIN stream_stats THEN stream_stats[s].sequences ELSE {}

\* The unique sequence numbers observed across the run
UniqueSeen == AllSequences(stream_stats)

\* C2 - Elimination-clean signal: a report printed with no gap event
\* recorded and at least 10 unique sequence numbers observed declares
\* elimination working; a report with a gap event recorded does not.
C2_EliminationClean ==
    \A k \in 1..Len(report) :
      /\ (report[k].sequence_gaps = 0 /\ Cardinality(UniqueSeen) >= 10)
           => report[k].elimination = "working"
      /\ report[k].sequence_gaps > 0 => report[k].elimination # "working"

\* C3 - Generator transmission failure: once the sink has failed, no
\* further frame is sent, and the final statistics have been printed with
\* the number of frames transmitted before the failure.
C3_TransmissionFailure ==
    /\ [][gpc = "crashed" => (gpc' = "crashed" /\ sentFrames' = sentFrames)]_vars
    /\ [](gpc = "crashed" =>
            /\ Len(gen_report) = 1
            /\ gen_report[1].sent = Len(sentFrames))

\* C4 - Duplicate classification: a tagged frame is a duplicate exactly when
\* its sequence is already in the seen set of its own stream (both
\* duplicate counters +1, seen set unchanged); otherwise it is new and its
\* sequence is inserted.  The same sequence twice on a fresh stream gives
\* duplicates 1, one seen sequence, frame count 2; the same sequence on
\* another stream is new.
C4_Step ==
    \A q \in SeqVals, s \in SidVals :
      Observes(WireFrame(q, s)) =>
        LET dupsBefore == IF s \in DOMAIN stream_stats
                          THEN stream_stats[s].duplicates ELSE 0
            line == frame_log'[Len(frame_log')]
        IN IF q \in SeenOn(s)
           THEN /\ duplicate_frames' = duplicate_frames + 1
                /\ stream_stats'[s].duplicates = dupsBefore + 1
                /\ stream_stats'[s].sequences = SeenOn(s)
                /\ line.status = "DUPLICATE"
           ELSE /\ duplicate_frames' = duplicate_frames
                /\ stream_stats'[s].duplicates = dupsBefore
                /\ stream_stats'[s].sequences = SeenOn(s) \cup {q}
                /\ line.status = "NEW"

C4_Twice ==
    \A q \in SeqVals, s \in SidVals :
      /\ observed = <<WireFrame(q, s), WireFrame(q, s)>> =>
           /\ duplicate_frames = 1
           /\ stream_stats[s].duplicates = 1
           /\ Cardinality(stream_stats[s].sequences) = 1
           /\ stream_stats[s].count = 2
      /\ \A t \in SidVals \ {s} :
           observed = <<WireFrame(q, s), WireFrame(q, t)>> =>
             /\ duplicate_frames = 0
             /\ frame_log[2].status = "NEW"

C4_DuplicateClassification == [][C4_Step]_vars /\ []C4_Twice

C4_Witness ==
    /\ observed = <<WireFrame(5, 1), WireFrame(5, 2), WireFrame(5, 1)>>
    /\ duplicate_frames = 1
    /\ frame_log[3].status = "DUPLICATE"

\* C5 - Wraparound correctness: a frame whose sequence is the successor
\* modulo 65536 of its stream's lastSequence records no gap; 65535 followed
\* by 0 records no gap.
C5_Step ==
    \A q \in SeqVals, s \in SidVals :
      ( /\ Observes(WireFrame(q, s))
        /\ LastSet(s)
        /\ q = Succ16(stream_stats[s].last_seq) )
      => /\ sequence_gaps' = sequence_gaps
         /\ ~frame_log'[Len(frame_log')].gap

C5_Wrap ==
    \A s \in SidVals :
      observed = <<WireFrame(65535, s), WireFrame(0, s)>> => sequence_gaps = 0

C5_Wraparound == [][C5_Step]_vars /\ []C5_Wrap

C5_Witness ==
    /\ observed = <<WireFrame(65535, 1), WireFrame(0, 1)>>
    /\ stream_stats[1].last_seq = 0
    /\ sequence_gaps = 0

\* C6 - Noise suppression: a frame at forward distance >= 1000 from the
\* expected sequence records no gap, and if its sequence was not seen before
\* it is still inserted into seen and classified new; 0 then 50000 leaves
\* the gap count and the duplicates unchanged and grows seen by one.
C6_Step ==
    \A q \in SeqVals, s \in SidVals :
      ( /\ Observes(WireFrame(q, s))
        /\ LastSet(s)
        /\ Dist16(q, Succ16(stream_stats[s].last_seq)) >= 1000 )
      => /\ sequence_gaps' = sequence_gaps
         /\ q \notin SeenOn(s) =>
              /\ stream_stats'[s].sequences = SeenOn(s) \cup {q}
              /\ frame_log'[Len(frame_log')].status = "NEW"
              /\ duplicate_frames' = duplicate_frames

C6_Far ==
    \A s \in SidVals :
      observed = <<WireFrame(0, s), WireFrame(50000, s)>> =>
        /\ sequence_gaps = 0
        /\ stream_stats[s].sequences = {0, 50000}
        /\ duplicate_frames = 0

C6_NoiseSuppression == [][C6_Step]_vars /\ []C6_Far

C6_Witness ==
    /\ observed = <<WireFrame(0, 1), WireFrame(50000, 1)>>
    /\ frame_log[2].status = "NEW"
    /\ sequence_gaps = 0

\* C7 - In every reachable analyzer state
\* duplicateFrames <= taggedFrames <= totalFrames.
C7_CounterOrder ==
    /\ duplicate_frames <= rtag_frames
    /\ rtag_frames <= total_frames

C7_Witness ==
    /\ duplicate_frames = 1
    /\ rtag_frames = 2
    /\ total_frames = 3

\* C8 - Decode failure is not an error: a frame without a VLAN tag, with a
\* post-VLAN payload shorter than 6 bytes, or whose first two payload bytes
\* are not 0x893D raises totalFrames by one and leaves the tagged,
\* duplicate and gap counters and every stream's state unchanged, creates
\* no stream entry, and the capture goes on.
NotRtagFrame(frame) ==
    \/ ~frame.dot1q
    \/ Len(frame.payload) < 6
    \/ frame.payload[1] # 137
    \/ frame.payload[2] # 61

C8_Step ==
    \A frame \in FrameSet :
      (Observes(frame) /\ NotRtagFrame(frame)) =>
        /\ total_frames' = total_frames + 1
        /\ rtag_frames' = rtag_frames
        /\ duplicate_frames' = duplicate_frames
        /\ sequence_gaps' = sequence_gaps
        /\ stream_stats' = stream_stats
        /\ DOMAIN stream_stats' = DOMAIN stream_stats
        /\ frame_log' = frame_log
        /\ apc' = "capturing"

C8_DecodeFailure == [][C8_Step]_vars

C8_Witness ==
    /\ observed = <<WireFrame(5, 1), WrongTypeFrame, ShortFrame>>
    /\ total_frames = 3
    /\ rtag_frames = 1

\* C9 - R-TAG round trip: decoding a VLAN-tagged frame whose payload starts
\* with create_rtag(sequence, streamId) yields (0x893D, sequence, streamId);
\* the six bytes are EtherType, sequence, streamId, each big-endian.
C9_RoundTrip ==
    /\ codec.pc = "decoded" =>
         codec.out = [ethertype |-> 35133, seq_num |-> codec.seq,
                      stream_id |-> codec.sid]
    /\ codec.pc \in {"encoded", "decoded"} =>
         codec.rtag = <<137, 61, codec.seq \div 256, codec.seq % 256,
                        codec.sid \div 256, codec.sid % 256>>

C9_Witness ==
    /\ codec.pc = "decoded"
    /\ codec.seq = 4660
    /\ codec.sid = 65534
    /\ codec.tail = FRER_TEST
    /\ codec.out.seq_num = 4660

\* C10 - End-to-end clean run: when the analyzer has observed, in order and
\* without loss or duplication, the first n frames of a generator run
\* (n >= 1), its report shows n tagged frames, no duplicates, no gap events,
\* n unique sequences, the sequence range 0..n-1 and a loss numerator of 0.
C10_CleanRun ==
    \A k \in 1..Len(report) :
      LET n == Len(observed)
          s == stream_id % 65536
          r == report[k]
      IN n >= 1 =>
           /\ r.rtag_frames = n
           /\ r.duplicate_frames = 0
           /\ r.sequence_gaps = 0
           /\ DOMAIN r.streams = {s}
           /\ r.streams[s].unique = n
           /\ r.streams[s].min_seq = 0
           /\ r.streams[s].max_seq = n - 1
           /\ r.streams[s].expected - r.streams[s].actual = 0
           /\ r.streams[s].loss_num = 0

C10_Witness ==
    /\ Len(report) = 1
    /\ Len(observed) = 10
    /\ report[1].rtag_frames = 10
    /\ report[1].streams[stream_id % 65536].max_seq = 9

\* C11 - End-to-end replicated run: when the analyzer has observed n
\* consecutive sequences of one stream, each delivered twice with the copy
\* right after its original, its report shows n duplicates, n unique
\* sequences, 2n tagged frames and no gap events.
C11_ReplicatedRun ==
    \A k \in 1..Len(report) :
      LET n == Len(observed) \div 2
          s == stream_id % 65536
          r == report[k]
      IN (n >= 1 /\ Len(observed) = 2 * n) =>
           /\ r.duplicate_frames = n
           /\ r.rtag_frames = 2 * n
           /\ r.sequence_gaps = 0
           /\ DOMAIN r.streams = {s}
           /\ r.streams[s].unique = n
           /\ r.streams[s].duplicates = n

C11_Witness ==
    /\ Len(report) = 1
    /\ Len(observed) = 20
    /\ report[1].duplicate_frames = 10
    /\ entry_seq = 65534

\* The frames of a capture that carry an R-TAG
TaggedAt == {k \in 1..Len(observed) : ~NotRtagFrame(observed[k])}

\* C12 - Analyzer always reports: however the capture ends (count limit,
\* timeout, user interrupt, capture error), the report is printed exactly
\* once, with the counters accumulated from the frames observed before the
\* stop, and nothing is analyzed or reported afterwards.
C12_Reported ==
    /\ apc = "capturing" => report = <<>>
    /\ apc = "done" =>
         /\ stop_reason \in {"count", "timeout", "interrupt", "error"}
         /\ Len(report) = 1
         /\ report[1].total_frames = Len(observed)
         /\ report[1].rtag_frames = Cardinality(TaggedAt)
         /\ report[1].duplicate_frames = duplicate_frames
         /\ report[1].sequence_gaps = sequence_gaps
         /\ DOMAIN report[1].streams = DOMAIN stream_stats

C12_Final == apc = "done" => UNCHANGED analyzerVars

C12_AlwaysReports == []C12_Reported /\ [][C12_Final]_vars

C12_Witness ==
    /\ apc = "done"
    /\ stop_reason = "error"
    /\ Len(report) = 1
    /\ report[1].total_frames = 3
    /\ report[1].rtag_frames = 2

\* The R-TAG fields a transmitted frame carries
TagSeq(frame) == frame.payload[3] * 256 + frame.payload[4]
TagStream(frame) == frame.payload[5] * 256 + frame.payload[6]

\* q advanced k times, wrapping after 65535
Wrap16(v) == IF v >= 65536 THEN v - 65536 ELSE v

\* C13 - Generator sequence numbering: the first frame of a new generator
\* carries sequence 0, every later frame the successor modulo 65536 of the
\* frame before it (0 after 65535), every frame the stream id masked to 16
\* bits, and each generate_frame call advances the counter by exactly one.
C13_Frames ==
    /\ \A k \in 1..Len(sentFrames) :
         /\ TagSeq(sentFrames[k]) = Wrap16(entry_seq + k - 1)
         /\ TagStream(sentFrames[k]) = Wrap16(stream_id)
         /\ sentFrames[k].payload[1] = 137 /\ sentFrames[k].payload[2] = 61
    /\ \A k \in 1..(Len(sentFrames) - 1) :
         TagSeq(sentFrames[k + 1]) = Succ16(TagSeq(sentFrames[k]))
    /\ (entry_seq = 0 /\ sentFrames # <<>>) => TagSeq(sentFrames[1]) = 0

C13_Advance ==
    IF gpc = "loop" /\ gpc' = "send"
    THEN sequence_number' = sequence_number + 1
    ELSE sequence_number' = sequence_number

C13_SequenceNumbering == []C13_Frames /\ [][C13_Advance]_vars

C13_Witness ==
    /\ entry_seq = 65534
    /\ Len(sentFrames) = 3
    /\ TagSeq(sentFrames[2]) = 65535
    /\ TagSeq(sentFrames[3]) = 0
    /\ stream_id = 65537

\* C14 - Generator interrupt: after an interrupt during send the loop has
\* stopped, no further frame is transmitted, and the final statistics are
\* printed with a sent count equal to the number of frames whose
\* transmission completed.
C14_Reported ==
    \A k \in 1..Len(gen_report) :
      gen_report[k].interrupted =>
        /\ gpc = "done"
        /\ gen_report[k].sent = Len(sentFrames)

C14_Stopped == gpc = "done" => (gpc' = "done" /\ sentFrames' = sentFrames)

C14_Interrupt == []C14_Reported /\ [][C14_Stopped]_vars

\* C15 - Setup verify-only mode: with --verify-only the tool writes only
\* the status query, a GET command, never a SET command, and then closes the
\* serial connection.
C15_VerifyOnly ==
    verify_only =>
      /\ Len(cmd_log) <= 1
      /\ \A k \in 1..Len(cmd_log) :
           /\ cmd_log[k].cmd_type = 71
           /\ cmd_log[k].data = <<0>>
           /\ cmd_log[k].frame[2] = 71
      /\ spc \in {"connect", "exit1", "verify", "close", "closed"}
      /\ spc = "closed" => (~ser_open /\ frer_status.queried)
      /\ setup_out = <<>>

C15_Witness ==
    /\ verify_only
    /\ spc = "closed"
    /\ Len(cmd_log) = 1
    /\ cmd_log[1].response.len = 5
    /\ ~ser_open

\* C16 - lastSequence update: after any tagged frame, new or duplicate, gap
\* evaluated or not, the stream's lastSequence is that frame's sequence, so
\* the baseline of the next gap test is the preceding tagged frame of the
\* stream, a duplicate included.
C16_Step ==
    \A q \in SeqVals, s \in SidVals :
      Observes(WireFrame(q, s)) =>
        /\ s \in DOMAIN stream_stats'
        /\ stream_stats'[s].last_seq = q

\* lastSequence of every stream is the sequence of the last tagged frame
\* observed on it
C16_Baseline ==
    \A s \in SidVals :
      LET on == {k \in 1..Len(frame_log) : frame_log[k].stream = s} IN
      on # {} => stream_stats[s].last_seq = frame_log[Max(on)].seq

C16_LastSequence == [][C16_Step]_vars /\ []C16_Baseline

C16_Witness ==
    /\ observed = <<WireFrame(5, 1), WireFrame(7, 1), WireFrame(5, 1)>>
    /\ frame_log[3].status = "DUPLICATE"
    /\ stream_stats[1].last_seq = 5

\* C17 - Seen set is monotone: no step removes a sequence from a stream's
\* seen set; a step leaves the set unchanged or adds exactly the current
\* frame's sequence; a sequence once seen on a stream is classified
\* duplicate on every later arrival on that stream.
C17_Step ==
    /\ \A s \in DOMAIN stream_stats :
         /\ s \in DOMAIN stream_stats'
         /\ stream_stats[s].sequences \subseteq stream_stats'[s].sequences
    /\ \A q \in SeqVals, s \in SidVals :
         Observes(WireFrame(q, s)) =>
           /\ stream_stats'[s].sequences \in {SeenOn(s), SeenOn(s) \cup {q}}
           /\ q \in stream_stats'[s].sequences

C17_Later ==
    \A k \in 1..Len(frame_log) :
      (\E j \in 1..(k - 1) : /\ frame_log[j].stream = frame_log[k].stream
                             /\ frame_log[j].seq = frame_log[k].seq)
      => frame_log[k].status = "DUPLICATE"

C17_SeenMonotone == [][C17_Step]_vars /\ []C17_Later

C17_Witness ==
    /\ observed = <<WireFrame(5, 1), WireFrame(6, 1), WireFrame(5, 1)>>
    /\ stream_stats[1].sequences = {5, 6}
    /\ frame_log[3].status = "DUPLICATE"

\* The stream ids of the tagged frames observed so far
StreamsObserved == {frame_log[k].stream : k \in 1..Len(frame_log)}

\* C18 - Per-stream independence and lazy creation: a stream's state exists
\* only once a tagged frame with its id has been observed, it starts from
\* count 0, empty seen set, no duplicates and lastSequence unset, and a
\* tagged frame of stream A leaves the state of every other stream
\* unchanged.
C18_Lazy ==
    /\ DOMAIN stream_stats = StreamsObserved
    /\ DOMAIN stream_stats =
         {TagStream(observed[k]) : k \in TaggedAt}

C18_Step ==
    \A q \in SeqVals, s \in SidVals :
      Observes(WireFrame(q, s)) =>
        /\ \A t \in SidVals \ {s} :
             IF t \in DOMAIN stream_stats
             THEN t \in DOMAIN stream_stats' /\ stream_stats'[t] = stream_stats[t]
             ELSE t \notin DOMAIN stream_stats'
        /\ s \notin DOMAIN stream_stats =>
             stream_stats'[s] = [count |-> 1, sequences |-> {q},
                                 duplicates |-> 0, last_seq |-> q]

C18_Independence == []C18_Lazy /\ [][C18_Step]_vars

C18_Witness ==
    /\ observed = <<WireFrame(5, 1), WireFrame(5, 1), WireFrame(7, 2)>>
    /\ stream_stats[1] = [count |-> 2, sequences |-> {5}, duplicates |-> 1,
                          last_seq |-> 5]
    /\ stream_stats[2] = [count |-> 1, sequences |-> {7}, duplicates |-> 0,
                          last_seq |-> 7]

RECURSIVE SumOver(_, _)
SumOver(S, f) ==
    IF S = {} THEN 0
    ELSE LET x == CHOOSE y \in S : TRUE IN f[x] + SumOver(S \ {x}, f)

\* C19 - Counter consistency: for every stream the frame count is the
\* number of seen sequences plus the duplicates; taggedFrames is the sum of
\* the streams' frame counts and duplicateFrames the sum of their duplicates.
C19_CounterConsistency ==
    /\ \A s \in DOMAIN stream_stats :
         stream_stats[s].count =
           Cardinality(stream_stats[s].sequences) + stream_stats[s].duplicates
    /\ rtag_frames =
         SumOver(DOMAIN stream_stats, [s \in DOMAIN stream_stats |-> stream_stats[s].count])
    /\ duplicate_frames =
         SumOver(DOMAIN stream_stats, [s \in DOMAIN stream_stats |-> stream_stats[s].duplicates])

C19_Witness ==
    /\ rtag_frames = 3
    /\ duplicate_frames = 1
    /\ Cardinality(DOMAIN stream_stats) = 2

\* C20 - Loss accounting bounds: for every stream with a non-empty seen set
\* the reported range max - min + 1 satisfies 1 <= |seen| <= range <= 65536,
\* the loss numerator range - |seen| is not negative, and it is 0 exactly
\* when the seen sequences are the whole integer interval min..max.
C20_LossBounds ==
    \A k \in 1..Len(report) :
      \A s \in DOMAIN report[k].streams :
        LET r    == report[k].streams[s]
            seen == stream_stats[s].sequences
        IN seen # {} =>
             /\ r.has_range
             /\ r.expected = r.max_seq - r.min_seq + 1
             /\ 1 <= r.actual
             /\ r.actual = Cardinality(seen)
             /\ r.actual <= r.expected
             /\ r.expected <= 65536
             /\ r.expected - r.actual >= 0
             /\ r.loss_num = r.expected - r.actual
             /\ (r.loss_num = 0) <=> (seen = r.min_seq..r.max_seq)

C20_Witness ==
    /\ Len(report) = 1
    /\ 1 \in DOMAIN report[1].streams
    /\ 2 \in DOMAIN report[1].streams
    /\ stream_stats[1].sequences = {0, 65535}
    /\ report[1].streams[1].expected = 65536
    /\ stream_stats[2].sequences = {6}
    /\ report[1].streams[2].loss_num = 0

\* C21 - Generator final-sequence report: when a send run that transmitted
\* at least one frame ends, normally or by interrupt, the reported Final
\* Sequence is the R-TAG sequence number of the last frame transmitted.
C21_FinalSequence ==
    \A k \in 1..Len(gen_report) :
      sentFrames # <<>> =>
        gen_report[k].final_sequence = TagSeq(sentFrames[Len(sentFrames)])

\* The send_command calls of one kind for stream n: the SET commands differ
\* in the length of their data
StreamCmds(n) == {k \in 1..Len(cmd_log) : /\ cmd_log[k].cmd_type = 83
                                          /\ cmd_log[k].data = <<0, n, 4, 6>>}
RtagCmds(n)   == {k \in 1..Len(cmd_log) : /\ cmd_log[k].cmd_type = 83
                                          /\ cmd_log[k].data = <<0, n, 1>>}
ElimCmds(n)   == {k \in 1..Len(cmd_log) : /\ cmd_log[k].cmd_type = 83
                                          /\ cmd_log[k].data = <<0, n, 32, 0, 100>>}
StatusCmds    == {k \in 1..Len(cmd_log) : cmd_log[k].cmd_type = 71}

\* The identification command of stream n returned a non-empty response
Identified(n) ==
    \E k \in StreamCmds(n) : /\ cmd_log[k].response.raised = ""
                             /\ cmd_log[k].response.len > 0

\* C22 - Setup command ordering: in full-configuration mode the R-TAG and
\* elimination commands of a stream follow, in that order, that stream's
\* identification command and only when it returned a non-empty response;
\* stream 2 is attempted whatever stream 1 returned; the status query comes
\* after both streams; and 'Configuration Complete' is printed exactly when
\* both identification commands succeeded, whatever the R-TAG and
\* elimination commands returned.
C22_CommandOrdering ==
    ~verify_only =>
      /\ \A n \in {1, 2} :
           /\ Cardinality(StreamCmds(n)) <= 1
           /\ \A k \in RtagCmds(n) : (k - 1) \in StreamCmds(n) /\ Identified(n)
           /\ \A k \in ElimCmds(n) : (k - 1) \in RtagCmds(n)
      /\ \A k \in StreamCmds(2) : \E j \in StreamCmds(1) : j < k
      /\ \A k \in StatusCmds :
           /\ k = Len(cmd_log)
           /\ \A n \in {1, 2} : \E j \in StreamCmds(n) : j < k
           /\ \A n \in {1, 2} :
                Identified(n) => (RtagCmds(n) # {} /\ ElimCmds(n) # {})
      /\ spc \in {"close", "closed"} =>
           /\ Cardinality(StatusCmds) = 1
           /\ Len(setup_out) = 1
           /\ (setup_out[1] = "complete") <=> (Identified(1) /\ Identified(2))
      /\ spc \notin {"close", "closed"} => setup_out = <<>>

C22_Witness ==
    /\ ~verify_only
    /\ spc = "closed"
    /\ Len(cmd_log) = 5
    /\ ~Identified(1)
    /\ Identified(2)
    /\ cmd_log[3].response.raised = "read"
    /\ cmd_log[4].response.len = 0
    /\ cmd_log[5].cmd_type = 71
    /\ setup_out = <<"incomplete">>

=============================================================================
